---- MODULE Spec2Model ----
(***************************************************************************)
(* A model of send_self.py: the send_self decorator (the launcher), the     *)
(* Weak/Strong generator wrappers (the handles) and the generator they      *)
(* drive, under CPython's reference counting.                               *)
(*                                                                          *)
(* One decorated generator function is called once.  Its body is one of a   *)
(* small set of programs taken from the repository's tests and demo         *)
(* command.  The host (threads started by defer / test_throw) holds the     *)
(* handles and callbacks the body hands out and uses them in any order.     *)
(* A resumption takes two steps, its start (the generator becomes           *)
(* "running") and the run of the body up to its next yield, so that other   *)
(* threads can act while the body is running.                               *)
(***************************************************************************)
EXTENDS Integers, Sequences, FiniteSets, TLC

VARIABLES
    prog,        \* which body the decorated function has
    catch,       \* send_self's catch_stopiteration, as configured
    debug,       \* send_self's debug
    lpc,         \* send_self_wrapper's position
    ret_value,   \* send_self_wrapper's local ret_value
    lres,        \* what the call of send_self_wrapper gave its caller
    gstate,      \* the generator: none, running, suspended, terminated
    gpc,         \* the instruction the generator is suspended at (0: not started)
    alive,       \* the generator object exists (created and not collected)
    nCreated,    \* generator objects created so far
    ladv,        \* what send_self_wrapper delivered in each advance it made
    flag,        \* the tests' ts.run
    thisv,       \* the body's local `this`
    finreg,      \* the weakref object made for finalize_callback: none, live, dead
    nFinalized,  \* calls of finalize_callback so far
    cur,         \* the resumption in flight (NoCall when the body is not running)
    held,        \* handles held by host threads
    pending,     \* callbacks (functools.partial objects) held by host threads
    hist,        \* the host's operations on handles so far, with their results
    ylog,        \* the values the generator yielded so far
    gcpass       \* the cyclic collector's pass over the generator: none, freed, kept

vars == <<prog, catch, debug, lpc, ret_value, lres, gstate, gpc, alive, nCreated,
          ladv, flag, thisv, finreg, nFinalized, cur, held, pending, hist, ylog,
          gcpass>>

----------------------------------------------------------------------------
\* Bounds

\* The host performs at most this many operations on handles and callbacks.
MaxOps == 3

----------------------------------------------------------------------------
\* Values

None == "None"

Return(v) == [kind |-> "return", val |-> v]
Raise(e) == [kind |-> "raise", val |-> e]

\* What an advance of the generator object itself gives.
Yielded(v) == [kind |-> "yield", val |-> v]
Stopped == [kind |-> "stop", val |-> None]
Raised(e) == [kind |-> "raise", val |-> e]

NoHandle == [mode |-> "none", ref |-> "none", catch |-> FALSE, debug |-> FALSE]
NoCall == [who |-> "none", op |-> "none", catch |-> FALSE, exc |-> None,
           mode |-> "none", h |-> NoHandle]
NoRaw == [kind |-> "none", val |-> None]

\* An instruction of a body: op with its argument, the value it yields (for the
\* instructions that are a yield) and h, the instruction an exception thrown in
\* at this yield is handled at (0: the body does not handle it).
Ins(op, arg, val, h) == [op |-> op, arg |-> arg, val |-> val, h |-> h]

\* The bodies.
\*  1  test_normal_termination:   yield; ts.run = True
\*  2  test_weakref_suspended, test_strongref_suspended:
\*         yield; ts.run = True; yield; ts.run = False
\*  3  test_weakref_suspended_deferred:
\*         this = yield; ts.run = True; yield defer(this.send, call=False);
\*         ts.run = False
\*  4  test_deferred_termination:
\*         this = yield; yield defer(this.send); ts.run = True
\*  5  the demo's loop body (TestCommandCommand.run):
\*         this = yield; ts.run = True
\*         try: yield test_throw(this(), i); ts.run = False; return
\*         except TypeError: yield "sorry"
\*  6  three yields, told apart by their values, a thread given this():
\*         this = yield "first"; yield test_throw(this(), i) ["second"];
\*         yield "third"
\*  7  two yields, the second in a try whose handler ends the body:
\*         this = yield "first"
\*         try: yield test_throw(this(), i) ["second"]
\*         except TypeError: pass
\*  8  a body that calls its own callback while it runs:
\*         this = yield; yield test_throw(this(), i)
\*         try: this.send() except ValueError: pass
\*         yield "after"
\*  9  a body that raises after its second yield:
\*         this = yield; yield test_throw(this(), i); raise RuntimeError
\* 10  test_circular_strongref_suspended, a thread given a weak wrapper:
\*         this = (yield)(); ts.run = True; yield give(this.with_weak_ref());
\*         ts.run = False
Programs ==
    << << Ins("yield", None, None, 0), Ins("set", "set", None, 0) >>,
       << Ins("yield", None, None, 0), Ins("set", "set", None, 0),
          Ins("yield", None, None, 0), Ins("set", "clear", None, 0) >>,
       << Ins("recv", None, None, 0), Ins("set", "set", None, 0),
          Ins("defer", "nocall", None, 0), Ins("set", "clear", None, 0) >>,
       << Ins("recv", None, None, 0), Ins("defer", "call", None, 0),
          Ins("set", "set", None, 0) >>,
       << Ins("recv", None, None, 0), Ins("set", "set", None, 0),
          Ins("hand", None, None, 6), Ins("set", "clear", None, 0),
          Ins("return", None, None, 0), Ins("yield", None, "sorry", 0) >>,
       << Ins("recv", None, "first", 0), Ins("hand", None, "second", 0),
          Ins("yield", None, "third", 0) >>,
       << Ins("recv", None, "first", 0), Ins("hand", None, "second", 3) >>,
       << Ins("recv", None, None, 0), Ins("hand", None, None, 0),
          Ins("resend", None, None, 0), Ins("yield", None, "after", 0) >>,
       << Ins("recv", None, None, 0), Ins("hand", None, None, 0),
          Ins("raise", "RuntimeError", None, 0) >>,
       << Ins("recv", "call", None, 0), Ins("set", "set", None, 0),
          Ins("hand", "weak", None, 0), Ins("set", "clear", None, 0) >> >>

Body == Programs[prog]

----------------------------------------------------------------------------
\* The wrappers (handles)

\* WeakGeneratorWrapper keeping the generator itself (the variant C16 is
\* checked against).
WeakGeneratorWrapper_strongref(g, c, d) ==
    [mode |-> "strong", ref |-> g, catch |-> c, debug |-> d]

\* WeakGeneratorWrapper.__init__: weakref.ref(generator) raises TypeError for
\* None, so a weak wrapper always was made for a generator.
WeakGeneratorWrapper(g, c, d) ==
    [mode |-> "weak", ref |-> g, catch |-> c, debug |-> d]

\* StrongGeneratorWrapper with the generator behind a weakref.ref, as the weak
\* wrapper has it (the variant C1 is checked against).
StrongGeneratorWrapper_weakref(g, c, d) ==
    [mode |-> "weak", ref |-> g, catch |-> c, debug |-> d]

\* StrongGeneratorWrapper.__init__ that does not keep debug (the variant C20 is
\* checked against).
StrongGeneratorWrapper_nodebug(g, c, d) ==
    [mode |-> "strong", ref |-> g, catch |-> c, debug |-> FALSE]

\* StrongGeneratorWrapper.__init__: self.generator = generator, whatever it is.
StrongGeneratorWrapper(g, c, d) ==
    [mode |-> "strong", ref |-> g, catch |-> c, debug |-> d]

\* The generator property: the attribute of a strong wrapper, weak_generator()
\* of a weak one, which is None once the generator was collected.
generator(h) ==
    IF h.mode = "strong" THEN h.ref
    ELSE IF h.mode = "weak" /\ alive THEN h.ref
    ELSE "none"

\* The send and throw properties binding the wrapper's weak reference, to be
\* resolved when the callback is called; the partial then holds no generator
\* (the variant C17 is checked against).
Partial_unbound(h, op, call) ==
    [op |-> op, ref |-> IF h.mode = "weak" THEN "none" ELSE h.ref,
     catch |-> h.catch, call |-> call]

\* The send and throw properties: partial(self._send, self.generator), which
\* holds the generator the handle resolves to now.
Partial(h, op, call) ==
    [op |-> op, ref |-> generator(h), catch |-> h.catch, call |-> call]

\* with_strong_ref returning the wrapper it is called on, weak or strong (the
\* variant C18 is checked against).
with_strong_ref_self(h) == Return(h)

\* with_strong_ref, also __call__ (of a weak wrapper: a new strong wrapper
\* around whatever the weak one resolves to; of a strong one: itself).
with_strong_ref(h) ==
    IF h.mode = "weak"
    THEN Return(StrongGeneratorWrapper(generator(h), h.catch, h.debug))
    ELSE Return(h)

\* with_weak_ref that makes the weak wrapper with the default settings (the
\* variant C14 is checked against).
with_weak_ref_defaults(h) ==
    IF h.mode = "strong"
    THEN IF h.ref = "none" THEN Raise("TypeError")
         ELSE Return(WeakGeneratorWrapper(h.ref, TRUE, FALSE))
    ELSE Return(h)

\* with_weak_ref (of a strong wrapper: a new weak wrapper, whose weakref.ref
\* raises TypeError when the strong wrapper holds None; of a weak one: itself).
with_weak_ref(h) ==
    IF h.mode = "strong"
    THEN IF h.ref = "none" THEN Raise("TypeError")
         ELSE Return(WeakGeneratorWrapper(h.ref, h.catch, h.debug))
    ELSE Return(h)

\* _send without its except clause (the variant C5 is checked against).
_send_uncaught(c, raw) ==
    CASE raw.kind = "yield" -> IF c THEN Return(raw.val) ELSE Return(None)
      [] raw.kind = "stop" -> Raise("StopIteration")
      [] OTHER -> Raise(raw.val)

\* _send with a bare except (the variant C9 is checked against).
_send_bare_except(c, raw) ==
    IF c
    THEN CASE raw.kind = "yield" -> Return(raw.val)
           [] OTHER -> Return(None)
    ELSE CASE raw.kind = "yield" -> Return(None)
           [] raw.kind = "stop" -> Raise("StopIteration")
           [] OTHER -> Raise(raw.val)

\* _send without `return` in its try, as in its else branch (the variant C10 is
\* checked against).
_send_no_return(c, raw) ==
    CASE raw.kind = "yield" -> Return(None)
      [] raw.kind = "stop" -> IF c THEN Return(None) ELSE Raise("StopIteration")
      [] OTHER -> Raise(raw.val)

\* _send around the outcome of generator.send(value).
_send(c, raw) ==
    IF c
    THEN CASE raw.kind = "yield" -> Return(raw.val)
           [] raw.kind = "stop" -> Return(None)
           [] OTHER -> Raise(raw.val)
    ELSE CASE raw.kind = "yield" -> Return(None)
           [] raw.kind = "stop" -> Raise("StopIteration")
           [] OTHER -> Raise(raw.val)

\* _throw with a bare except (the variant C12 is checked against).
_throw_bare_except(c, raw) ==
    IF c
    THEN CASE raw.kind = "yield" -> Return(raw.val)
           [] OTHER -> Return(None)
    ELSE CASE raw.kind = "yield" -> Return(None)
           [] raw.kind = "stop" -> Raise("StopIteration")
           [] OTHER -> Raise(raw.val)

\* _throw around the outcome of generator.throw(...).
_throw(c, raw) ==
    IF c
    THEN CASE raw.kind = "yield" -> Return(raw.val)
           [] raw.kind = "stop" -> Return(None)
           [] OTHER -> Raise(raw.val)
    ELSE CASE raw.kind = "yield" -> Return(None)
           [] raw.kind = "stop" -> Raise("StopIteration")
           [] OTHER -> Raise(raw.val)

\* _send or _throw, by the name of the operation.
Wrapped(op, c, raw) == IF op = "throw" THEN _throw(c, raw) ELSE _send(c, raw)

\* One operation on a handle or callback, as the history records it: the
\* operation, the handle's mode, the state of the generator it resolved to, what
\* the generator gave, what the caller got, and the handle a conversion made.
Entry(op, mode, pre, raw, res, new) ==
    [op |-> op, mode |-> mode, pre |-> pre, raw |-> raw, res |-> res, new |-> new]

----------------------------------------------------------------------------
\* The generator

\* The state of the generator a wrapper or a callback resolved to.
Target(g) == IF g = "none" THEN "gone" ELSE gstate

\* generator.send / generator.throw on a target that does not run the body:
\* None has no such attribute, a running generator raises ValueError (generator
\* already executing), a finished one raises StopIteration on send and the
\* exception thrown in on throw.
Immediate(op, t, exc) ==
    CASE t = "gone" -> Raised("AttributeError")
      [] t = "running" -> Raised("ValueError")
      [] op = "send" -> Stopped
      [] OTHER -> Raised(exc)

\* The body from instruction i on, up to its next yield, its end or a return.
RECURSIVE Run(_, _)
Run(i, s) ==
    IF i > Len(Body) THEN [s EXCEPT !.pc = i, !.out = Stopped]
    ELSE LET ins == Body[i] IN
      CASE ins.op = "set" -> Run(i + 1, [s EXCEPT !.flag = ins.arg])
        [] ins.op = "return" -> [s EXCEPT !.pc = i, !.out = Stopped]
        [] ins.op = "raise" -> [s EXCEPT !.pc = i, !.out = Raised(ins.arg)]
        [] ins.op = "defer" ->
             \* yield defer(this.send, call)
             IF s.thisv.mode = "none"
             THEN [s EXCEPT !.pc = i, !.out = Raised("AttributeError")]
             ELSE [s EXCEPT !.pc = i, !.out = Yielded(ins.val),
                            !.pending = @ \cup {Partial(s.thisv, "send", ins.arg)}]
        [] ins.op = "hand" ->
             \* yield test_throw(this(), i), or this.with_weak_ref() given
             LET given == IF ins.arg = "weak" THEN with_weak_ref(s.thisv)
                          ELSE with_strong_ref(s.thisv)
             IN IF s.thisv.mode = "none"
                THEN [s EXCEPT !.pc = i, !.out = Raised("TypeError")]
                ELSE IF given.kind = "raise"
                THEN [s EXCEPT !.pc = i, !.out = Raised(given.val)]
                ELSE [s EXCEPT !.pc = i, !.out = Yielded(ins.val),
                               !.held = @ \cup {given.val}]
        [] ins.op = "resend" ->
             \* try: this.send() except ValueError: pass
             \* the generator is the one running this body
             LET raw == Immediate("send", "running", None)
                 res == _send(s.thisv.catch, raw)
             IN IF s.thisv.mode = "none"
                THEN [s EXCEPT !.pc = i, !.out = Raised("AttributeError")]
                ELSE Run(i + 1, [s EXCEPT !.hist = Append(@,
                         Entry("send", "body", "running", raw, res, NoHandle))])
        [] OTHER -> [s EXCEPT !.pc = i, !.out = Yielded(ins.val)]

\* The body resumed at the yield it is suspended at (0: not started) with what
\* the resumer delivers: a value (a handle, for the launcher's) or an exception.
Resume(i, inp, s) ==
    IF i = 0 THEN Run(1, s)
    ELSE IF inp.kind = "throw"
         THEN IF Body[i].h # 0 THEN Run(Body[i].h, s)
              ELSE [s EXCEPT !.pc = i, !.out = Raised(inp.exc)]
         ELSE IF Body[i].op = "recv"
              THEN \* this = yield, or this = (yield)()
                   Run(i + 1, [s EXCEPT !.thisv = IF Body[i].arg = "call"
                                                  THEN with_strong_ref(inp.h).val
                                                  ELSE inp.h])
              ELSE Run(i + 1, s)

----------------------------------------------------------------------------
\* Reference counting

\* The launcher's `generator` kept after the return, as a closure variable would
\* be (the variant C2 is checked against).
LauncherHolds_after_return == lpc \in {"next", "first", "send", "sent", "returned"}

\* The launcher's local `generator` exists from the call of func to the return.
LauncherHolds == lpc \in {"next", "first", "send", "sent"}

\* Something other than the generator's own frame refers to the generator: the
\* launcher's local, a resumption in flight, a strong wrapper or a partial in a
\* host thread.
Rooted ==
    \/ LauncherHolds
    \/ cur.who # "none"
    \/ \E h \in held : h.mode = "strong" /\ h.ref = "gen"
    \/ \E c \in pending : c.ref = "gen"

\* The generator's frame holds a strong wrapper of the generator (a cycle).
SelfCycle == gstate # "terminated" /\ thisv.mode = "strong" /\ thisv.ref = "gen"

\* weakref.ref(generator, finalize_callback), the result not kept: the weakref
\* object is deallocated at once, and a dead weakref calls nothing.
RegisterFinalize == "dead"

\* After a step: a generator that nothing refers to any more is deallocated, and
\* the weakref objects that are still there call their callbacks.
Reap ==
    /\ alive' = (alive /\ (Rooted' \/ SelfCycle'))
    /\ nFinalized' = IF alive /\ ~alive' /\ finreg' = "live"
                     THEN nFinalized + 1 ELSE nFinalized

----------------------------------------------------------------------------
\* The launcher: send_self_wrapper

Init ==
    /\ prog \in 1..Len(Programs)
    /\ catch \in BOOLEAN
    /\ debug \in BOOLEAN
    /\ lpc = "idle"
    /\ ret_value = None
    /\ lres = NoRaw
    /\ gstate = "none"
    /\ gpc = 0
    /\ alive = FALSE
    /\ nCreated = 0
    /\ ladv = << >>
    /\ flag = "unset"
    /\ thisv = NoHandle
    /\ finreg = "none"
    /\ nFinalized = 0
    /\ cur = NoCall
    /\ held = {}
    /\ pending = {}
    /\ hist = << >>
    /\ ylog = << >>
    /\ gcpass = "none"

\* generator = func(*args, **kwargs); weakref.ref(generator, finalize_callback);
\* next(generator) starts.
LaunchStart ==
    /\ lpc = "idle"
    /\ nCreated' = nCreated + 1
    /\ alive' = TRUE
    /\ finreg' = RegisterFinalize
    /\ gstate' = "running"
    /\ cur' = [NoCall EXCEPT !.who = "launcher", !.op = "next"]
    /\ ladv' = Append(ladv, NoHandle)
    /\ lpc' = "next"
    /\ UNCHANGED <<prog, catch, debug, gcpass, ret_value, lres, gpc, flag, thisv,
                   nFinalized, held, pending, hist, ylog>>

\* gen_wrapper = WeakGeneratorWrapper(generator, catch_stopiteration, debug);
\* generator.send(gen_wrapper) starts.
LaunchDeliver ==
    /\ lpc = "first"
    /\ gstate = "suspended"
    /\ LET gen_wrapper == WeakGeneratorWrapper("gen", catch, debug) IN
         /\ cur' = [NoCall EXCEPT !.who = "launcher", !.op = "send",
                                  !.h = gen_wrapper]
         /\ ladv' = Append(ladv, gen_wrapper)
    /\ gstate' = "running"
    /\ lpc' = "send"
    /\ UNCHANGED <<prog, catch, debug, gcpass, ret_value, lres, gpc, nCreated, flag,
                   thisv, finreg, held, pending, hist, ylog>>
    /\ Reap

\* ret_value assigned from generator.send(gen_wrapper) too (the variant C8 is
\* checked against).
RetValue_of_send(at, old, v) == v

\* ret_value = next(generator): the value of the first advance only; what
\* generator.send(gen_wrapper) returns is dropped.
RetValue(at, old, v) == IF at = "next" THEN v ELSE old

\* return ret_value
LaunchReturn ==
    /\ lpc = "sent"
    /\ lpc' = "returned"
    /\ lres' = Return(ret_value)
    /\ UNCHANGED <<prog, catch, debug, gcpass, ret_value, gstate, gpc, nCreated, ladv,
                   flag, thisv, finreg, cur, held, pending, hist, ylog>>
    /\ Reap

----------------------------------------------------------------------------
\* The body runs

\* The running body reaches its next yield, returns or raises; the resumer
\* (next or generator.send in the launcher, _send or _throw in a host thread)
\* takes the outcome.
BodyRun ==
    /\ cur.who # "none"
    /\ gstate = "running"
    /\ LET inp == [kind |-> IF cur.op = "throw" THEN "throw" ELSE "value",
                   exc |-> cur.exc, h |-> cur.h]
           r == Resume(gpc, inp, [flag |-> flag, thisv |-> thisv, held |-> held,
                                  pending |-> pending, hist |-> hist,
                                  pc |-> gpc, out |-> Stopped])
           yielded == r.out.kind = "yield"
       IN
         /\ gstate' = IF yielded THEN "suspended" ELSE "terminated"
         /\ gpc' = r.pc
         /\ flag' = r.flag
         /\ thisv' = IF yielded THEN r.thisv ELSE NoHandle
         /\ held' = r.held
         /\ pending' = r.pending
         /\ ylog' = IF yielded THEN Append(ylog, r.out.val) ELSE ylog
         /\ IF cur.who = "launcher"
            THEN /\ hist' = r.hist
                 /\ IF yielded
                    THEN /\ lpc' = IF lpc = "next" THEN "first" ELSE "sent"
                         /\ ret_value' = RetValue(lpc, ret_value, r.out.val)
                         /\ lres' = lres
                    ELSE \* next / generator.send raises out of send_self_wrapper
                         /\ lpc' = "raised"
                         /\ ret_value' = ret_value
                         /\ lres' = Raise(IF r.out.kind = "stop" THEN "StopIteration"
                                          ELSE r.out.val)
            ELSE /\ hist' = Append(r.hist, Entry(cur.op, cur.mode, "suspended", r.out,
                                               Wrapped(cur.op, cur.catch, r.out),
                                               NoHandle))
                 /\ UNCHANGED <<lpc, ret_value, lres>>
    /\ cur' = NoCall
    /\ UNCHANGED <<prog, catch, debug, gcpass, nCreated, ladv, finreg>>
    /\ Reap

----------------------------------------------------------------------------
\* The host: threads holding handles and callbacks

\* The host may start one more operation.
CanOp == Len(hist) + (IF cur.who = "host" THEN 1 ELSE 0) < MaxOps

\* gw.send(value) / gw.throw(TypeError, ...) with a handle: the property binds
\* the generator the handle resolves to, _send / _throw is called with it.
\* callback() with a partial made earlier: the same, with the generator bound
\* then.
Call(op, mode, g, c) ==
    LET t == Target(g) IN
      IF t = "suspended"
      THEN /\ cur' = [who |-> "host", op |-> op, catch |-> c,
                      exc |-> IF op = "throw" THEN "TypeError" ELSE None,
                      mode |-> mode, h |-> NoHandle]
           /\ gstate' = "running"
           /\ hist' = hist
      ELSE LET raw == Immediate(op, t, "TypeError") IN
           /\ hist' = Append(hist, Entry(op, mode, t, raw, Wrapped(op, c, raw),
                                         NoHandle))
           /\ UNCHANGED <<cur, gstate>>

HostResume(h, op) ==
    /\ CanOp
    /\ Call(op, h.mode, generator(h), h.catch)
    /\ UNCHANGED <<prog, catch, debug, gcpass, lpc, ret_value, lres, gpc, nCreated, ladv,
                   flag, thisv, finreg, held, pending, ylog>>
    /\ Reap

\* defer's thread, call=True: callback()
HostFire(c) ==
    /\ CanOp
    /\ c.call = "call"
    /\ pending' = pending \ {c}
    /\ Call(c.op, "callback", c.ref, c.catch)
    /\ UNCHANGED <<prog, catch, debug, gcpass, lpc, ret_value, lres, gpc, nCreated, ladv,
                   flag, thisv, finreg, held, ylog>>
    /\ Reap

\* defer's thread, call=False: the thread ends without calling the callback.
HostDiscard(c) ==
    /\ c.call = "nocall"
    /\ pending' = pending \ {c}
    /\ UNCHANGED <<prog, catch, debug, gcpass, lpc, ret_value, lres, gstate, gpc, nCreated,
                   ladv, flag, thisv, finreg, cur, held, hist, ylog>>
    /\ Reap

\* close done as a throw of GeneratorExit, which a finished generator raises
\* back (the variant C15 is checked against).
close_by_throw(t) ==
    CASE t = "gone" -> Raise("AttributeError")
      [] t = "running" -> Raise("ValueError")
      [] t = "terminated" -> Raise("GeneratorExit")
      [] OTHER -> Return(None)

\* The close property, self.generator.close, and its call: None has no close, a
\* running generator raises ValueError, a suspended one is ended at its yield
\* (no body here handles GeneratorExit), a finished one is left as it is.
close(t) ==
    CASE t = "gone" -> Raise("AttributeError")
      [] t = "running" -> Raise("ValueError")
      [] OTHER -> Return(None)

HostClose(h) ==
    /\ CanOp
    /\ LET t == Target(generator(h)) IN
         /\ hist' = Append(hist, Entry("close", h.mode, t, NoRaw, close(t), NoHandle))
         /\ gstate' = IF t = "suspended" THEN "terminated" ELSE gstate
         /\ thisv' = IF t = "suspended" THEN NoHandle ELSE thisv
    /\ UNCHANGED <<prog, catch, debug, gcpass, lpc, ret_value, lres, gpc, nCreated, ladv,
                   flag, finreg, cur, held, pending, ylog>>
    /\ Reap

\* with_strong_ref() or with_weak_ref(): the thread keeps the handle it gets.
\* Calling the handle is with_strong_ref (__call__ = with_strong_ref in both
\* classes), so it is the same operation here.
Convert(op, h) == IF op = "with_weak_ref" THEN with_weak_ref(h) ELSE with_strong_ref(h)

HostConvert(h, op) ==
    /\ CanOp
    /\ LET r == Convert(op, h)
           ok == r.kind = "return"
       IN
         /\ held' = IF ok THEN held \cup {r.val} ELSE held
         /\ hist' = Append(hist, Entry(op, h.mode, Target(generator(h)), NoRaw,
                                       IF ok THEN Return("handle") ELSE r,
                                       IF ok THEN r.val ELSE NoHandle))
    /\ UNCHANGED <<prog, catch, debug, gcpass, lpc, ret_value, lres, gstate, gpc, nCreated,
                   ladv, flag, thisv, finreg, cur, pending, ylog>>
    /\ Reap

\* gc.collect(0) (or a pass the interpreter starts) while the generator is
\* referred to by its own frame only.  What the pass does with a suspended
\* generator in a cycle depends on the interpreter: from Python 3.4 on it is
\* freed, before that it is kept (the test is marked as failing there, and the
\* demo calls the cycle a memory leak), and the later passes do the same.
GcCollect ==
    /\ alive
    /\ ~Rooted
    /\ gcpass = "none"
    /\ \E freed \in BOOLEAN :
         /\ gcpass' = IF freed THEN "freed" ELSE "kept"
         /\ alive' = ~freed
    /\ UNCHANGED <<prog, catch, debug, lpc, ret_value, lres, gstate, gpc, nCreated,
                   ladv, flag, thisv, finreg, nFinalized, cur, held, pending, hist,
                   ylog>>

\* A thread ends, or forgets a handle.
HostDrop(h) ==
    /\ held' = held \ {h}
    /\ UNCHANGED <<prog, catch, debug, gcpass, lpc, ret_value, lres, gstate, gpc, nCreated,
                   ladv, flag, thisv, finreg, cur, pending, hist, ylog>>
    /\ Reap

----------------------------------------------------------------------------

Next ==
    \/ LaunchStart
    \/ LaunchDeliver
    \/ LaunchReturn
    \/ BodyRun
    \/ \E h \in held, op \in {"send", "throw"} : HostResume(h, op)
    \/ \E c \in pending : HostFire(c)
    \/ \E c \in pending : HostDiscard(c)
    \/ \E h \in held : HostClose(h)
    \/ \E h \in held, op \in {"with_strong_ref", "with_weak_ref"} : HostConvert(h, op)
    \/ \E h \in held : HostDrop(h)
    \/ GcCollect

Spec == Init /\ [][Next]_vars

----------------------------------------------------------------------------
\* Helpers of the properties

\* The host's operations so far.
Entries == {hist[i] : i \in 1..Len(hist)}

StrongHeld == {h \in held : h.mode = "strong" /\ h.ref = "gen"}

\* Nothing but weak handles is left: no strong handle and no callback in a host
\* thread, none in the body, no resumption in flight, the launcher has returned.
OnlyWeak ==
    /\ lpc = "returned"
    /\ cur = NoCall
    /\ StrongHeld = {}
    /\ \A c \in pending : c.ref # "gen"
    /\ thisv.mode # "strong"

\* The k-th host operation was a send that found the generator in state pre.
SendAt(k, pre) ==
    /\ Len(hist) >= k
    /\ hist[k].op = "send"
    /\ hist[k].pre = pre

----------------------------------------------------------------------------
\* C1: a generator is not collected while a host thread holds a strong wrapper
\* of it.  In the demo's loop body (program 5), suspended after ts.run = True
\* with the thread's strong wrapper the only reference and no callback pending,
\* the generator is alive and the wrapper resolves to it; a send through it as
\* the first operation runs the code after the yield (ts.run = False) and
\* leaves the generator terminated, and still there.
C1_StrongKeepsAlive ==
    /\ \A h \in StrongHeld : alive /\ generator(h) = "gen"
    /\ (prog = 5 /\ lpc = "returned" /\ cur = NoCall /\ hist = << >> /\ held # {})
         => /\ StrongHeld # {}
            /\ alive
            /\ gstate = "suspended"
            /\ flag = "set"
            /\ pending = {}
    /\ (prog = 5 /\ SendAt(1, "suspended") /\ hist[1].mode = "strong")
         => /\ flag = "clear"
            /\ gstate = "terminated"
            /\ hist[1].raw = Stopped
            /\ (StrongHeld # {} => alive)

C1_Witness ==
    /\ prog = 5
    /\ lpc = "returned"
    /\ hist = << Entry("send", "strong", "suspended", Stopped, Return(None), NoHandle) >>
    /\ StrongHeld # {}
    /\ alive
    /\ gstate = "terminated"
    /\ flag = "clear"

----------------------------------------------------------------------------
\* C2: once the launcher has returned with the generator suspended and nothing
\* but weak wrappers is left (no strong wrapper and no callback in a thread or
\* in the body, no resumption in flight), the generator is collected: every weak
\* wrapper resolves to None, and the code after the yield never ran (in the
\* bodies that set ts.run before they suspend, it is still set).
C2_WeakOnlyCollected ==
    (OnlyWeak /\ gstate = "suspended")
      => /\ ~alive
         /\ \A h \in held : generator(h) = "none"
         /\ (prog \in {2, 3, 5} => flag = "set")

C2_Witness ==
    /\ prog = 5
    /\ OnlyWeak
    /\ gstate = "suspended"
    /\ \E h \in held : h.mode = "weak" /\ generator(h) = "none"
    /\ ~alive
    /\ flag = "set"

----------------------------------------------------------------------------
\* C3: finalize_callback is called exactly once for the generator when it is
\* collected: not before, never twice, and not zero times once it is gone.
C3_FinalizeOnce ==
    nFinalized = IF nCreated > 0 /\ ~alive THEN 1 ELSE 0

----------------------------------------------------------------------------
\* C4: a send that resumes a suspended generator returns the value the
\* generator yields next, whatever catch_stopiteration is.
C4_SendReturnsYield ==
    \A e \in Entries :
        (e.op = "send" /\ e.pre = "suspended" /\ e.raw.kind = "yield")
          => e.res = Return(e.raw.val)

----------------------------------------------------------------------------
\* A send or throw that found the generator finished, or that made it return.
Ends(e) ==
    /\ e.op \in {"send", "throw"}
    /\ \/ e.pre = "terminated"
       \/ e.pre = "suspended" /\ e.raw.kind = "stop"

\* C5 as claimed: a send or throw that finds the generator finished, or that
\* makes it return, gives None when catch_stopiteration is true and raises
\* StopIteration when it is false.
C5_Original ==
    \A e \in Entries :
        Ends(e) => e.res = IF catch THEN Return(None) ELSE Raise("StopIteration")

\* C5 as amended: the same, except that a throw into a generator that had
\* already finished raises the exception thrown in, under both settings.
C5_Termination ==
    \A e \in Entries :
        Ends(e) => e.res = IF e.op = "throw" /\ e.pre = "terminated"
                           THEN Raise("TypeError")
                           ELSE IF catch THEN Return(None)
                           ELSE Raise("StopIteration")

C5_Witness ==
    /\ catch
    /\ Len(hist) = 3
    /\ hist[1].op = "throw" /\ hist[1].pre = "suspended"
    /\ hist[1].raw = Stopped /\ hist[1].res = Return(None)
    /\ hist[2].op = "send" /\ hist[2].pre = "terminated"
    /\ hist[2].res = Return(None)
    /\ hist[3].op = "throw" /\ hist[3].pre = "terminated"
    /\ hist[3].res = Raise("TypeError")

----------------------------------------------------------------------------
\* C6: no operation on a handle whose generator is gone raises.
C6_DanglingNeverRaises ==
    \A e \in Entries : e.pre = "gone" => e.res.kind = "return"

----------------------------------------------------------------------------
\* C7: a body with one yield only (program 1), which ends during the launcher's
\* generator.send(gen_wrapper): the call returns normally, the statements after
\* the yield have run and the generator is gone.
C7_ShortBodyLaunch ==
    (prog = 1 /\ lpc \in {"returned", "raised"})
      => /\ lpc = "returned"
         /\ flag = "set"
         /\ ~alive

----------------------------------------------------------------------------
----------------------------------------------------------------------------
\* A send, throw or close that found the generator running raised ValueError.
C9_Rejected ==
    \A e \in Entries :
        (e.pre = "running" /\ e.op \in {"send", "throw", "close"})
          => e.res = Raise("ValueError")

\* The step in which a thread's operation finds the generator running is the
\* whole operation, and leaves the generator and the resumption in flight alone.
C9_Step ==
    (/\ Len(hist') = Len(hist) + 1
     /\ hist'[Len(hist')].pre = "running")
      => /\ gstate = "running"
         /\ cur.who # "none"
         /\ UNCHANGED <<gstate, gpc, flag, thisv, cur, ylog, alive, lpc, lres>>

\* The body that called its own callback (program 8) goes on to its next yield,
\* whose value the resumer in flight gets.
C9_Body ==
    \A k \in 1..Len(hist) :
        hist[k].mode = "body"
          => /\ Len(hist) > k
             /\ hist[k + 1].pre = "suspended"
             /\ hist[k + 1].raw = Yielded("after")

\* C9: a send, throw or close that finds the generator running, from another
\* thread or from the body itself, raises ValueError to its caller, also when
\* catch_stopiteration is true; it does not wait, and it leaves the generator
\* and the resumption in flight, with its result, as they were.
C9_Reentrancy == [](C9_Rejected /\ C9_Body) /\ [][C9_Step]_vars

C9_Witness ==
    /\ catch
    /\ cur.who = "host"
    /\ gstate = "running"
    /\ \E e \in Entries : e.pre = "running" /\ e.op = "send"
                          /\ e.res = Raise("ValueError")
    /\ \E e \in Entries : e.pre = "running" /\ e.op = "close"
                          /\ e.res = Raise("ValueError")

----------------------------------------------------------------------------
\* With catch_stopiteration true, the host's first two operations are sends
\* that reach the generator one after the other.
TwoSends ==
    /\ catch
    /\ Len(hist) >= 2
    /\ hist[1].op = "send" /\ hist[1].pre \notin {"running", "gone"}
    /\ hist[2].op = "send" /\ hist[2].pre \notin {"running", "gone"}

\* C10 as claimed: with catch_stopiteration true, for the body that yields
\* "first", then "second", then ends (program 7), the first two sends that reach
\* the generator one after the other return "second" and then None.
C10_Original ==
    (prog = 7 /\ TwoSends)
      => /\ hist[1].res = Return("second")
         /\ hist[2].res = Return(None)

\* C10 as amended: the launcher itself takes "first" (its return value) and
\* "second" (dropped), so for that body both sends return None; for the body
\* that yields "first", "second", "third" and ends (program 6) they return
\* "third" and then None.  The second send finds the generator as the first
\* left it.
C10_Sequential ==
    /\ (prog = 7 /\ TwoSends)
         => /\ hist[1].pre = "suspended" /\ hist[1].res = Return(None)
            /\ hist[2].pre = "terminated" /\ hist[2].res = Return(None)
            /\ ylog = << "first", "second" >>
    /\ (prog = 6 /\ TwoSends)
         => /\ hist[1].pre = "suspended" /\ hist[1].res = Return("third")
            /\ hist[2].pre = "suspended" /\ hist[2].res = Return(None)
            /\ ylog = << "first", "second", "third" >>
            /\ gstate = "terminated"

C10_Witness ==
    /\ prog = 6
    /\ TwoSends
    /\ lres = Return("first")
    /\ hist[1].res = Return("third")
    /\ hist[2].res = Return(None)

----------------------------------------------------------------------------
\* C11: a throw into a suspended generator whose body handles the exception
\* runs the handler, leaves the generator suspended at the handler's next yield
\* and returns the value yielded there to the caller of throw, whatever
\* catch_stopiteration is.  In the demo's loop body (program 5) the handler
\* yields "sorry", and the code after the yield in the try has not run.
C11_ThrowReturnsYield ==
    /\ \A e \in Entries :
          (e.op = "throw" /\ e.pre = "suspended" /\ e.raw.kind = "yield")
            => e.res = Return(e.raw.val)
    /\ (prog = 5 /\ Len(hist) = 1 /\ hist[1].op = "throw"
           /\ hist[1].pre = "suspended")
         => /\ hist[1].raw = Yielded("sorry")
            /\ gstate = "suspended"
            /\ gpc = 6
            /\ flag = "set"

----------------------------------------------------------------------------
\* A send or throw during which the body raised, or let through what was thrown.
Uncaught(e) ==
    /\ e.op \in {"send", "throw"}
    /\ e.pre = "suspended"
    /\ e.raw.kind = "raise"

\* A send that found the generator finished gave what a finished generator
\* gives: None with catch_stopiteration, StopIteration without.
SendOnTerminated(e) ==
    (e.op = "send" /\ e.pre = "terminated")
      => /\ e.raw = Stopped
         /\ e.res = IF catch THEN Return(None) ELSE Raise("StopIteration")

----------------------------------------------------------------------------
\* C13: with_weak_ref never raises, whatever strong wrapper it is called on,
\* the one with_strong_ref made of a weak wrapper whose generator was collected
\* included; and that strong wrapper resolves to None, now and later.
C13_WeakRefNeverRaises ==
    \A e \in Entries :
        /\ e.op = "with_weak_ref" => e.res.kind = "return"
        /\ (e.op = "with_strong_ref" /\ e.mode = "weak" /\ e.pre = "gone")
             => /\ e.res.kind = "return"
                /\ e.new.mode = "strong"
                /\ generator(e.new) = "none"

----------------------------------------------------------------------------
\* The k-th and the next operation of the host turned a strong wrapper of the
\* generator, which was there, into a weak one and a weak one into a strong one.
RoundTripAt(k) ==
    /\ Len(hist) > k
    /\ hist[k].op = "with_weak_ref" /\ hist[k].mode = "strong"
    /\ hist[k].pre # "gone"
    /\ hist[k + 1].op = "with_strong_ref" /\ hist[k + 1].mode = "weak"
    /\ hist[k + 1].pre # "gone"

\* C14: for a generator that is there, with_weak_ref and then with_strong_ref
\* on a strong wrapper give a wrapper equal to it in all that an operation
\* uses: strong, resolving to the same generator, with the same
\* catch_stopiteration and debug.  A send through it therefore does what a send
\* through the original does: it reaches the generator and passes the outcome
\* through _send with the original's catch_stopiteration.
C14_RoundTrip ==
    /\ \A h \in StrongHeld :
          LET w == with_weak_ref(h) IN
            /\ w.kind = "return"
            /\ w.val.mode = "weak"
            /\ generator(w.val) = generator(h)
            /\ with_strong_ref(w.val) = Return(h)
    /\ \A k \in 1..Len(hist) :
          RoundTripAt(k)
            => /\ hist[k].new = WeakGeneratorWrapper("gen", catch, debug)
               /\ hist[k + 1].new = StrongGeneratorWrapper("gen", catch, debug)
               /\ (/\ Len(hist) > k + 1
                   /\ hist[k + 2].op = "send" /\ hist[k + 2].mode = "strong")
                    => /\ hist[k + 2].pre # "gone"
                       /\ hist[k + 2].res = _send(catch, hist[k + 2].raw)

C14_Witness ==
    /\ prog = 6
    /\ ~catch
    /\ debug
    /\ RoundTripAt(1)
    /\ Len(hist) = 3
    /\ hist[3].op = "send" /\ hist[3].mode = "strong"
    /\ hist[3].pre = "suspended"
    /\ hist[3].raw = Yielded("third")
    /\ StrongHeld = {StrongGeneratorWrapper("gen", catch, debug)}

----------------------------------------------------------------------------
\* A close that found the generator suspended or finished returned None, the
\* generator is finished from then on, and a later send behaves as a send to a
\* finished generator.
C15_Closed ==
    \A k \in 1..Len(hist) :
        (hist[k].op = "close" /\ hist[k].pre \in {"suspended", "terminated"})
          => /\ hist[k].res = Return(None)
             /\ gstate = "terminated"
             /\ \A j \in (k + 1)..Len(hist) :
                   /\ hist[j].pre \in {"terminated", "gone"}
                   /\ SendOnTerminated(hist[j])

\* The step of a close that finds the generator in state pre.
CloseStep(pre) ==
    /\ Len(hist') = Len(hist) + 1
    /\ hist'[Len(hist')].op = "close"
    /\ hist'[Len(hist')].pre = pre

\* A close of a suspended generator ends it where it is: the body does not go
\* on (ts.run, the yields so far and the handles and callbacks it gave out are
\* as before).  A close of a finished generator changes nothing at all.
C15_Step ==
    /\ CloseStep("suspended")
         => /\ gstate = "suspended"
            /\ gstate' = "terminated"
            /\ UNCHANGED <<flag, ylog, gpc, held, pending, cur, lpc, lres>>
    /\ CloseStep("terminated")
         => UNCHANGED <<prog, catch, debug, lpc, ret_value, lres, gstate, gpc,
                        alive, nCreated, ladv, flag, thisv, finreg, nFinalized,
                        cur, held, pending, ylog, gcpass>>

\* C15: close on a suspended generator finishes it without running the body any
\* further and returns None, and a send after it behaves as a send to a
\* finished generator; close on a finished generator returns None and changes
\* nothing, so a second close leaves the state the first one made.
C15_Close == []C15_Closed /\ [][C15_Step]_vars

C15_Witness ==
    /\ prog = 5
    /\ ~catch
    /\ Len(hist) = 3
    /\ hist[1].op = "close" /\ hist[1].pre = "suspended"
    /\ hist[2].op = "close" /\ hist[2].pre = "terminated"
    /\ hist[2].res = Return(None)
    /\ hist[3].op = "send" /\ hist[3].pre = "terminated"
    /\ hist[3].res = Raise("StopIteration")
    /\ flag = "set"
    /\ gstate = "terminated"

----------------------------------------------------------------------------
\* C16: in test_weakref_suspended_deferred's body (program 3), which has the
\* weak wrapper only and suspends at yield defer(this.send, call=False), the
\* generator is there exactly as long as the launcher has not returned or
\* defer's thread still has the callback: once both are over it is collected,
\* without the thread ever calling it, suspended at that yield with ts.run
\* still True.
C16_DeferredNeverCalled ==
    (prog = 3 /\ lpc \in {"sent", "returned"})
      => /\ thisv.mode = "weak"
         /\ gstate = "suspended"
         /\ gpc = 3
         /\ flag = "set"
         /\ hist = << >>
         /\ alive = (lpc = "sent" \/ pending # {})

C16_Witness ==
    /\ prog = 3
    /\ lpc = "returned"
    /\ pending = {}
    /\ ~alive
    /\ gstate = "suspended"
    /\ flag = "set"

----------------------------------------------------------------------------
\* C17: a callback (this.send of the weak wrapper, programs 3 and 4) holds the
\* generator from the moment the body takes it: while a thread has it and has
\* not called it the generator is there, also when the launcher has returned
\* and there is no strong wrapper anywhere; and calling it finds the generator
\* suspended and resumes it (in program 4 the body sets ts.run and ends).
C17_CallbackBindsStrongly ==
    /\ \A c \in pending : c.ref = "gen" /\ alive
    /\ (prog \in {3, 4} /\ lpc = "returned" /\ pending # {})
         => /\ alive
            /\ StrongHeld = {}
            /\ thisv.mode = "weak"
            /\ gstate = "suspended"
    /\ \A e \in Entries :
          e.mode = "callback"
            => /\ e.pre = "suspended"
               /\ (prog = 4 => e.raw = Stopped /\ flag = "set")

C17_Witness ==
    /\ prog = 4
    /\ lpc = "returned"
    /\ pending = {}
    /\ Len(hist) = 1
    /\ hist[1].mode = "callback"
    /\ hist[1].op = "send"
    /\ hist[1].pre = "suspended"
    /\ flag = "set"
    /\ gstate = "terminated"

----------------------------------------------------------------------------
\* The generator of test_circular_strongref_suspended (program 10) is suspended
\* after the launch, and nothing but its own frame holds it.
CycleOnly ==
    /\ prog = 10
    /\ lpc = "returned"
    /\ gstate = "suspended"
    /\ cur = NoCall
    /\ StrongHeld = {}

----------------------------------------------------------------------------
\* C19: the value of the second yield, which the generator reaches during the
\* launcher's generator.send(gen_wrapper), comes to no one: for the bodies that
\* yield "first", "second" and then "third" or nothing (programs 6 and 7) it
\* is neither what the launcher returns nor what any send or throw returns, and
\* the first send after the launch returns the value of the third yield
\* ("third"), or what a send that ends the body gives.
C19_SecondYieldDropped ==
    /\ prog \in {6, 7}
         => /\ lres # Return("second")
            /\ \A e \in Entries : e.res # Return("second")
    /\ (prog = 6 /\ SendAt(1, "suspended"))
         => hist[1].res = Return("third")
    /\ (prog = 7 /\ SendAt(1, "suspended"))
         => hist[1].res = IF catch THEN Return(None) ELSE Raise("StopIteration")

----------------------------------------------------------------------------
\* The wrappers there are or were: in the threads, in the body, delivered by
\* the launcher, made by a conversion.
Handles ==
    { h \in held \cup {thisv} \cup {ladv[i] : i \in 1..Len(ladv)}
              \cup {e.new : e \in Entries} : h.mode # "none" }

\* C20: every wrapper that comes from the launch through with_strong_ref,
\* with_weak_ref and calls of a wrapper has the catch_stopiteration and debug
\* given to send_self; a conversion gives a wrapper of the mode asked for,
\* leaves the wrapper it is called on as it is, and returns that very wrapper
\* when it already has the mode asked for.
C20_SettingsCarried ==
    /\ \A h \in Handles :
          /\ h.catch = catch
          /\ h.debug = debug
          /\ h.mode \in {"weak", "strong"}
    /\ \A h \in held :
          /\ h.mode = "strong" => with_strong_ref(h) = Return(h)
          /\ h.mode = "weak" => with_weak_ref(h) = Return(h)
    /\ \A e \in Entries :
          (e.op \in {"with_strong_ref", "with_weak_ref"} /\ e.res.kind = "return")
            => e.new.mode = IF e.op = "with_strong_ref" THEN "strong" ELSE "weak"

C20_Witness ==
    /\ debug
    /\ ~catch
    /\ Len(hist) = 3
    /\ hist[1].op = "with_weak_ref" /\ hist[1].mode = "strong"
    /\ hist[2].op = "with_strong_ref" /\ hist[2].mode = "weak"
    /\ hist[3].op = "with_strong_ref" /\ hist[3].mode = "strong"
    /\ hist[3].new = StrongGeneratorWrapper("gen", FALSE, TRUE)
    /\ WeakGeneratorWrapper("gen", FALSE, TRUE) \in held
    /\ StrongGeneratorWrapper("gen", FALSE, TRUE) \in held

====
